---- MODULE Spec2Model ----
(***************************************************************************)
(* Timeline coordinate engine of React-Modern-Gantt:                       *)
(*   TaskService.calculateDatesFromPosition   (pixels -> dates)            *)
(*   TaskService.calculateTaskPixelPosition   (dates  -> pixels)           *)
(*   TaskService.getLiveDatesFromElement, TaskService.datesOverlap         *)
(*   Timeline.getHigherLevelUnits             (header grouping)            *)
(*                                                                         *)
(* Conventions of the model                                                *)
(*  - A Date is its time value in milliseconds, counted from the model     *)
(*    epoch 2024-01-16T00:00:00.000 local time (so 2024-01-01 is day -15   *)
(*    and 2024-02-01 is day 16).  The local zone has a fixed offset (no    *)
(*    daylight saving), hence local calendar fields are plain div/mod of   *)
(*    the time value.  The Invalid Date is the value InvalidDate.          *)
(*  - A JavaScript number that may be fractional (pixels, ratios, spans)   *)
(*    is an exact rational [n, d] in lowest terms with d > 0; NaN is the   *)
(*    record with d = 0.  Floating-point rounding error is not modelled.   *)
(***************************************************************************)
EXTENDS Integers, Sequences, FiniteSets, TLC

(***************************************************************************)
(* Numbers                                                                 *)
(***************************************************************************)
Abs(x) == IF x < 0 THEN -x ELSE x

RECURSIVE GCD(_, _)
GCD(a, b) == IF b = 0 THEN a ELSE GCD(b, a % b)

NaN == [n |-> 0, d |-> 0]

isNaN(x) == x.d = 0

\* the rational n/d (d # 0) in lowest terms
Rat(n, d) ==
    LET g == GCD(Abs(n), Abs(d))
        s == IF d < 0 THEN -1 ELSE 1
    IN  [n |-> (s * n) \div g, d |-> (s * d) \div g]

Num(k) == [n |-> k, d |-> 1]

LCM(a, b) == (a \div GCD(a, b)) * b

RatAdd(a, b) ==
    IF isNaN(a) \/ isNaN(b) THEN NaN
    ELSE LET l == LCM(a.d, b.d)
         IN  Rat(a.n * (l \div a.d) + b.n * (l \div b.d), l)

RatNeg(a) == IF isNaN(a) THEN NaN ELSE [n |-> -a.n, d |-> a.d]

RatSub(a, b) == RatAdd(a, RatNeg(b))

RatMul(a, b) ==
    IF isNaN(a) \/ isNaN(b) THEN NaN
    ELSE LET g1 == GCD(Abs(a.n), b.d)
             g2 == GCD(Abs(b.n), a.d)
         IN  Rat((a.n \div g1) * (b.n \div g2), (a.d \div g2) * (b.d \div g1))

\* a / b for b # 0 (every divisor of the code is positive for a window with
\* totalUnits > 0, unitWidth > 0 and startDate < endDate)
RatDiv(a, b) ==
    IF isNaN(a) \/ isNaN(b) THEN NaN
    ELSE RatMul(a, IF b.n < 0 THEN [n |-> -b.d, d |-> -b.n]
                              ELSE [n |-> b.d, d |-> b.n])

\* a < b; any comparison with NaN is false
RatLT(a, b) ==
    /\ ~isNaN(a)
    /\ ~isNaN(b)
    /\ LET l == LCM(a.d, b.d)
       IN  a.n * (l \div a.d) < b.n * (l \div b.d)

RatLE(a, b) == ~isNaN(a) /\ ~isNaN(b) /\ ~RatLT(b, a)

\* Math.max / Math.min: NaN if either argument is NaN
MathMax(a, b) == IF isNaN(a) \/ isNaN(b) THEN NaN ELSE IF RatLT(a, b) THEN b ELSE a

MathMin(a, b) == IF isNaN(a) \/ isNaN(b) THEN NaN ELSE IF RatLT(b, a) THEN b ELSE a

\* greatest integer <= a
Floor(a) == a.n \div a.d

\* Math.round: nearest integer, ties towards +infinity
MathRound(a) ==
    IF isNaN(a) THEN NaN
    ELSE Num(IF 2 * (a.n % a.d) >= a.d THEN (a.n \div a.d) + 1 ELSE a.n \div a.d)

(***************************************************************************)
(* Dates                                                                   *)
(***************************************************************************)
MsPerSecond == 1000
MsPerMinute == 60 * 1000
MsPerHour == 60 * 60 * 1000
MsPerDay == 24 * 60 * 60 * 1000
MsPerWeek == 7 * 24 * 60 * 60 * 1000

InvalidDate == -2147483647

isValid(t) == t # InvalidDate

\* Date.getTime()
getTime(t) == IF isValid(t) THEN Num(t) ELSE NaN

\* new Date(number): the time value truncated to an integer; NaN gives the Invalid Date
newDate(x) == IF isNaN(x) THEN InvalidDate ELSE Floor(x)

\* the instant at local day, hour, minute, second, millisecond
At(day, h, m, s, ms) ==
    day * MsPerDay + h * MsPerHour + m * MsPerMinute + s * MsPerSecond + ms

\* d.setSeconds(0, 0)
startOfMinute(t) == IF isValid(t) THEN t - (t % MsPerMinute) ELSE InvalidDate

\* d.setMinutes(0, 0, 0)
startOfHour(t) == IF isValid(t) THEN t - (t % MsPerHour) ELSE InvalidDate

\* d.setHours(0, 0, 0, 0), date-fns startOfDay
startOfDay(t) == IF isValid(t) THEN t - (t % MsPerDay) ELSE InvalidDate

\* d.setSeconds(59, 999)
endOfMinute(t) == IF isValid(t) THEN startOfMinute(t) + MsPerMinute - 1 ELSE InvalidDate

\* d.setMinutes(59, 59, 999)
endOfHour(t) == IF isValid(t) THEN startOfHour(t) + MsPerHour - 1 ELSE InvalidDate

\* d.setHours(23, 59, 59, 999), date-fns endOfDay
endOfDay(t) == IF isValid(t) THEN startOfDay(t) + MsPerDay - 1 ELSE InvalidDate

\* d.setMinutes(d.getMinutes() + k), d.setHours(d.getHours() + k),
\* d.setDate(d.getDate() + k): k units later; a NaN argument gives the Invalid Date
addUnits(t, k, unitMs) ==
    IF isValid(t) /\ ~isNaN(k) THEN t + k.n * unitMs ELSE InvalidDate

\* a < b on Dates: false when either is the Invalid Date
DateLT(a, b) == isValid(a) /\ isValid(b) /\ a < b

(***************************************************************************)
(* ViewMode and Granularity Rules                                          *)
(***************************************************************************)
ViewMode == {"MINUTE", "HOUR", "DAY", "WEEK", "MONTH", "QUARTER", "YEAR"}

FixedModes == {"MINUTE", "HOUR", "DAY", "WEEK"}

\* duration of one column in the fixed-duration modes
unitDurationMs(viewMode) ==
    CASE viewMode = "WEEK" -> MsPerWeek
      [] viewMode = "DAY" -> MsPerDay
      [] viewMode = "HOUR" -> MsPerHour
      [] viewMode = "MINUTE" -> MsPerMinute

(***************************************************************************)
(* TaskService.calculateDatesFromPosition                                  *)
(***************************************************************************)
\* the effective timeline duration in milliseconds
timelineDuration(w) ==
    IF w.viewMode = "WEEK" THEN w.totalUnits * 7 * 24 * 60 * 60 * 1000
    ELSE IF w.viewMode = "DAY" THEN w.totalUnits * 24 * 60 * 60 * 1000
    ELSE IF w.viewMode = "HOUR" THEN w.totalUnits * 60 * 60 * 1000
    ELSE IF w.viewMode = "MINUTE" THEN w.totalUnits * 60 * 1000
    ELSE w.endDate - w.startDate

\* case ViewMode.MINUTE
snapMinute(left, width, w) ==
    LET unitWidth == Num(w.unitWidth)
        minutesFromStart == MathRound(RatDiv(left, unitWidth))
        minuteSpan == MathMax(Num(1), MathRound(RatDiv(width, unitWidth)))
        baseMinute == startOfMinute(w.startDate)
        newStartDate == startOfMinute(addUnits(baseMinute, minutesFromStart, MsPerMinute))
        newEndDate == endOfMinute(addUnits(newStartDate, RatSub(minuteSpan, Num(1)), MsPerMinute))
    IN  [newStartDate |-> newStartDate, newEndDate |-> newEndDate]

\* case ViewMode.HOUR
snapHour(left, width, w) ==
    LET unitWidth == Num(w.unitWidth)
        hoursFromStart == MathRound(RatDiv(left, unitWidth))
        hourSpan == MathMax(Num(1), MathRound(RatDiv(width, unitWidth)))
        baseHour == startOfHour(w.startDate)
        newStartDate == startOfHour(addUnits(baseHour, hoursFromStart, MsPerHour))
        newEndDate == endOfHour(addUnits(newStartDate, RatSub(hourSpan, Num(1)), MsPerHour))
    IN  [newStartDate |-> newStartDate, newEndDate |-> newEndDate]

\* mutant: the end date is daySpan days after the start, not daySpan - 1
snapDay_offByOne(left, width, w) ==
    LET unitWidth == Num(w.unitWidth)
        daysFromStart == MathRound(RatDiv(left, unitWidth))
        daySpan == MathMax(Num(1), MathRound(RatDiv(width, unitWidth)))
        baseDate == startOfDay(w.startDate)
        newStartDate == startOfDay(addUnits(baseDate, daysFromStart, MsPerDay))
        newEndDate == endOfDay(addUnits(newStartDate, daySpan, MsPerDay))
    IN  [newStartDate |-> newStartDate, newEndDate |-> newEndDate]

\* case ViewMode.DAY
snapDay(left, width, w) ==
    LET unitWidth == Num(w.unitWidth)
        daysFromStart == MathRound(RatDiv(left, unitWidth))
        daySpan == MathMax(Num(1), MathRound(RatDiv(width, unitWidth)))
        baseDate == startOfDay(w.startDate)
        newStartDate == startOfDay(addUnits(baseDate, daysFromStart, MsPerDay))
        newEndDate == endOfDay(addUnits(newStartDate, RatSub(daySpan, Num(1)), MsPerDay))
    IN  [newStartDate |-> newStartDate, newEndDate |-> newEndDate]

\* case ViewMode.WEEK
snapWeek(left, width, w) ==
    LET unitWidth == Num(w.unitWidth)
        pixelsPerDay == RatDiv(unitWidth, Num(7))
        daysFromStartWeek == MathRound(RatDiv(left, pixelsPerDay))
        daySpanWeek == MathMax(Num(1), MathRound(RatDiv(width, pixelsPerDay)))
        baseDateWeek == startOfDay(w.startDate)
        newStartDate == startOfDay(addUnits(baseDateWeek, daysFromStartWeek, MsPerDay))
        newEndDate == endOfDay(addUnits(newStartDate, RatSub(daySpanWeek, Num(1)), MsPerDay))
    IN  [newStartDate |-> newStartDate, newEndDate |-> newEndDate]

\* default (MONTH, QUARTER, YEAR): the proportional dates, widened to whole days
snapDefault(left, width, w) ==
    LET safeLeft == IF isNaN(left) THEN Num(0) ELSE left
        safeWidth == IF isNaN(width) \/ RatLT(width, Num(20)) THEN Num(20) ELSE width
        timelineStartTime == Num(w.startDate)
        msPerPixel == RatDiv(Num(timelineDuration(w)), Num(w.totalUnits * w.unitWidth))
        startOffset == RatMul(safeLeft, msPerPixel)
        durationMs == RatMul(safeWidth, msPerPixel)
        newStartDate == newDate(RatAdd(timelineStartTime, startOffset))
        newEndDate == newDate(RatAdd(RatAdd(timelineStartTime, startOffset), durationMs))
    IN  [newStartDate |-> startOfDay(newStartDate), newEndDate |-> endOfDay(newEndDate)]

\* the switch on viewMode: the snapped dates before the final clamp.  The
\* proportional dates computed first (from safeLeft and safeWidth) are
\* overwritten in the four fixed-duration cases.
snapToViewMode(left, width, w) ==
    CASE w.viewMode = "MINUTE" -> snapMinute(left, width, w)
      [] w.viewMode = "HOUR" -> snapHour(left, width, w)
      [] w.viewMode = "DAY" -> snapDay(left, width, w)
      [] w.viewMode = "WEEK" -> snapWeek(left, width, w)
      [] OTHER -> snapDefault(left, width, w)

\* "Ensure dates don't extend beyond the timeline boundaries"
clampToTimeline(d, w) ==
    [newStartDate |-> IF DateLT(d.newStartDate, w.startDate) THEN w.startDate ELSE d.newStartDate,
     newEndDate |-> IF DateLT(w.endDate, d.newEndDate) THEN w.endDate ELSE d.newEndDate]

\* w.isDate = FALSE: startDate/endDate are not Date objects (timestamps), so
\* startDate.getTime() throws and the catch block answers
calculateDatesFromPosition(left, width, w) ==
    IF ~w.isDate
    THEN [newStartDate |-> w.startDate, newEndDate |-> w.endDate]
    ELSE clampToTimeline(snapToViewMode(left, width, w), w)

(***************************************************************************)
(* TaskService.calculateTaskPixelPosition                                  *)
(***************************************************************************)
\* minWidthByViewMode
minWidthByViewMode(viewMode) ==
    CASE viewMode = "MINUTE" -> 10
      [] viewMode = "HOUR" -> 15
      [] viewMode = "DAY" -> 20
      [] viewMode = "WEEK" -> 20
      [] viewMode = "MONTH" -> 20
      [] viewMode = "QUARTER" -> 30
      [] viewMode = "YEAR" -> 40

\* Math.max / Math.min on time values (NaN for the Invalid Date)
maxTime(a, b) == IF isValid(a) /\ isValid(b) THEN (IF a < b THEN b ELSE a) ELSE InvalidDate

minTime(a, b) == IF isValid(a) /\ isValid(b) THEN (IF b < a THEN b ELSE a) ELSE InvalidDate

\* totalTimelineRange: literal span of the normalised window, or the grid in
\* the fixed-duration modes
totalTimelineRange(w, timelineStartTime, timelineEndTime) ==
    IF w.viewMode = "WEEK" THEN w.totalUnits * 7 * 24 * 60 * 60 * 1000
    ELSE IF w.viewMode = "DAY" THEN w.totalUnits * 24 * 60 * 60 * 1000
    ELSE IF w.viewMode = "HOUR" THEN w.totalUnits * 60 * 60 * 1000
    ELSE IF w.viewMode = "MINUTE" THEN w.totalUnits * 60 * 1000
    ELSE timelineEndTime - timelineStartTime

\* mutant: WEEK bars snap to whole weeks (unitWidth) instead of days
alignToViewMode_weekSteps(p, w) ==
    LET unitWidth == Num(w.unitWidth)
        pixelsPerDay == unitWidth
    IN  IF w.viewMode = "MINUTE"
        THEN [leftPx |-> MathRound(p.leftPx),
              widthPx |-> MathMax(Num(10), MathRound(p.widthPx))]
        ELSE IF w.viewMode = "HOUR"
        THEN [leftPx |-> MathRound(p.leftPx),
              widthPx |-> MathMax(Num(15), MathRound(p.widthPx))]
        ELSE IF w.viewMode = "DAY"
        THEN [leftPx |-> RatMul(MathRound(RatDiv(p.leftPx, unitWidth)), unitWidth),
              widthPx |-> MathMax(unitWidth,
                                  RatMul(MathRound(RatDiv(p.widthPx, unitWidth)), unitWidth))]
        ELSE IF w.viewMode = "WEEK"
        THEN [leftPx |-> RatMul(MathRound(RatDiv(p.leftPx, pixelsPerDay)), pixelsPerDay),
              widthPx |-> MathMax(pixelsPerDay,
                                  RatMul(MathRound(RatDiv(p.widthPx, pixelsPerDay)), pixelsPerDay))]
        ELSE p

\* "Add view mode specific adjustments for alignment"
alignToViewMode(p, w) ==
    LET unitWidth == Num(w.unitWidth)
        pixelsPerDay == RatDiv(unitWidth, Num(7))
    IN  IF w.viewMode = "MINUTE"
        THEN [leftPx |-> MathRound(p.leftPx),
              widthPx |-> MathMax(Num(10), MathRound(p.widthPx))]
        ELSE IF w.viewMode = "HOUR"
        THEN [leftPx |-> MathRound(p.leftPx),
              widthPx |-> MathMax(Num(15), MathRound(p.widthPx))]
        ELSE IF w.viewMode = "DAY"
        THEN [leftPx |-> RatMul(MathRound(RatDiv(p.leftPx, unitWidth)), unitWidth),
              widthPx |-> MathMax(unitWidth,
                                  RatMul(MathRound(RatDiv(p.widthPx, unitWidth)), unitWidth))]
        ELSE IF w.viewMode = "WEEK"
        THEN [leftPx |-> RatMul(MathRound(RatDiv(p.leftPx, pixelsPerDay)), pixelsPerDay),
              widthPx |-> MathMax(pixelsPerDay,
                                  RatMul(MathRound(RatDiv(p.widthPx, pixelsPerDay)), pixelsPerDay))]
        ELSE p

\* mutant: the minimum width is not enforced
ensureMinWidth_skipped(p, w) == p

\* "Ensure minimum width"
ensureMinWidth(p, w) ==
    [leftPx |-> p.leftPx,
     widthPx |-> MathMax(Num(minWidthByViewMode(w.viewMode)), p.widthPx)]

\* "Ensure not extending beyond timeline"
capToTimeline(p, w) ==
    LET totalPixelWidth == Num(w.totalUnits * w.unitWidth)
        maxWidth == RatSub(totalPixelWidth, p.leftPx)
    IN  [leftPx |-> p.leftPx, widthPx |-> MathMin(maxWidth, p.widthPx)]

\* leftPx and widthPx as first computed ("Calculate pixel positions"), before
\* the alignment to the view mode
rawPixelPosition(task, w) ==
    LET fixed == w.viewMode \in FixedModes
        dayLike == w.viewMode \in {"DAY", "WEEK"}
        clampedStart == maxTime(task.startDate, w.startDate)
        clampedEnd == minTime(task.endDate, w.endDate)
        timelineStartTime ==
            IF w.viewMode = "HOUR" THEN startOfHour(w.startDate)
            ELSE IF dayLike THEN startOfDay(w.startDate)
            ELSE w.startDate
        timelineEndTime ==
            IF w.viewMode = "HOUR" THEN endOfHour(w.endDate)
            ELSE IF dayLike THEN endOfDay(w.endDate)
            ELSE w.endDate
        taskStartTime == IF dayLike THEN startOfDay(clampedStart) ELSE clampedStart
        taskEndTime == IF dayLike THEN endOfDay(clampedEnd) ELSE clampedEnd
        range == Num(totalTimelineRange(w, timelineStartTime, timelineEndTime))
        distanceFromStart == RatSub(getTime(taskStartTime), Num(timelineStartTime))
        taskDuration == RatSub(getTime(taskEndTime), getTime(taskStartTime))
        leftPercent == RatDiv(distanceFromStart, range)
        widthPercent == RatDiv(taskDuration, range)
        totalPixelWidth == Num(w.totalUnits * w.unitWidth)
        raw == [leftPx |-> RatMul(leftPercent, totalPixelWidth),
                widthPx |-> RatMul(widthPercent, totalPixelWidth)]
    IN  raw

\* the body of the try block
taskPixelPosition(task, w) ==
    capToTimeline(ensureMinWidth(alignToViewMode(rawPixelPosition(task, w), w), w), w)

\* mutant: the instanceof test on the task's dates is missing
calculateTaskPixelPosition_unchecked(task, w) ==
    IF ~w.isDate
    THEN [leftPx |-> Num(0), widthPx |-> Num(20)]
    ELSE taskPixelPosition(task, w)

\* task.isDate = FALSE: a task date is not a Date object ("Invalid dates in
\* task" is thrown); w.isDate = FALSE: startDate.getTime() throws.  Either way
\* the catch block returns the default position.
calculateTaskPixelPosition(task, w) ==
    IF ~task.isDate \/ ~w.isDate
    THEN [leftPx |-> Num(0), widthPx |-> Num(20)]
    ELSE taskPixelPosition(task, w)

(***************************************************************************)
(* TaskService.createUpdatedTask, getLiveDatesFromElement, datesOverlap    *)
(***************************************************************************)
createUpdatedTask(task, newStartDate, newEndDate) ==
    [task EXCEPT !.startDate = newStartDate, !.endDate = newEndDate]

\* parseFloat(taskEl.style.left || "0"): an element without inline style
\* gives 0; el.left / el.width are what parseFloat returns otherwise
getLiveDatesFromElement(el, w) ==
    IF el.isNull
    THEN [startDate |-> w.startDate, endDate |-> w.endDate]
    ELSE LET left == IF el.styled THEN el.left ELSE Num(0)
             width == IF el.styled THEN el.width ELSE Num(0)
             r == calculateDatesFromPosition(left, width, w)
         IN  [startDate |-> r.newStartDate, endDate |-> r.newEndDate]

\* date-fns isWithinInterval(date, {start, end}) for start <= end
isWithinInterval(date, start, end) == date >= start /\ date <= end

\* mutant: only the ends of A are tested against B
datesOverlap_oneWay(startA, endA, startB, endB) ==
    \/ isWithinInterval(startA, startB, endB)
    \/ isWithinInterval(endA, startB, endB)

datesOverlap(startA, endA, startB, endB) ==
    \/ isWithinInterval(startA, startB, endB)
    \/ isWithinInterval(endA, startB, endB)
    \/ isWithinInterval(startB, startA, endA)
    \/ isWithinInterval(endB, startA, endA)

(***************************************************************************)
(* Timeline.getHigherLevelUnits                                            *)
(*                                                                         *)
(* The header row spans several months, more than the millisecond count    *)
(* used above can hold, so here a Date is the pair [day, ms]: the local     *)
(* calendar day counted from 2024-01-16 and the millisecond within that    *)
(* day.  Its time value is day * MsPerDay + ms.                            *)
(***************************************************************************)
\* the months around the model epoch: first day (as a day number) and length
Calendar ==
    << [year |-> 2023, month |-> 11, first |-> -46, days |-> 31],
       [year |-> 2024, month |-> 0, first |-> -15, days |-> 31],
       [year |-> 2024, month |-> 1, first |-> 16, days |-> 29],
       [year |-> 2024, month |-> 2, first |-> 45, days |-> 31],
       [year |-> 2024, month |-> 3, first |-> 76, days |-> 30] >>

monthOf(date) ==
    CHOOSE i \in 1..Len(Calendar) :
        Calendar[i].first <= date.day /\ date.day < Calendar[i].first + Calendar[i].days

getFullYear(date) == Calendar[monthOf(date)].year

getMonth(date) == Calendar[monthOf(date)].month

getDate(date) == date.day - Calendar[monthOf(date)].first + 1

getHours(date) == date.ms \div MsPerHour

\* a < b on [day, ms] Dates
before(a, b) == a.day < b.day \/ (a.day = b.day /\ a.ms < b.ms)

\* date-fns addDays
addDays(date, amount) == [day |-> date.day + amount, ms |-> date.ms]

\* a.getTime() - b.getTime(), divided by unitDays * 24 * 60 * 60 * 1000
spanBetween(a, b, unitDays) ==
    RatAdd(Rat(a.day - b.day, unitDays), Rat(a.ms - b.ms, unitDays * 24 * 60 * 60 * 1000))

\* d.setMinutes(0, 0, 0)
hourKey(date) == [day |-> date.day, ms |-> date.ms - (date.ms % MsPerHour)]

\* d.setHours(0, 0, 0, 0)
dayKey(date) == [day |-> date.day, ms |-> 0]

sameHour(date, currentHour) ==
    /\ getHours(date) = getHours(currentHour)
    /\ getDate(date) = getDate(currentHour)
    /\ getMonth(date) = getMonth(currentHour)
    /\ getFullYear(date) = getFullYear(currentHour)

sameDay(date, currentDay) ==
    /\ getDate(date) = getDate(currentDay)
    /\ getMonth(date) = getMonth(currentDay)
    /\ getFullYear(date) = getFullYear(currentDay)

\* mutant: the group still open after the walk is not pushed
RECURSIVE groupByHour_unflushed(_, _, _, _, _)
groupByHour_unflushed(months, i, currentHour, currentSpan, result) ==
    IF i > Len(months)
    THEN result
    ELSE IF sameHour(months[i], currentHour)
         THEN groupByHour_unflushed(months, i + 1, currentHour, currentSpan + 1, result)
         ELSE groupByHour_unflushed(months, i + 1, hourKey(months[i]), 1,
                          Append(result, [date |-> currentHour, span |-> Num(currentSpan)]))

\* months.forEach of the MINUTE branch, from index i on
RECURSIVE groupByHour(_, _, _, _, _)
groupByHour(months, i, currentHour, currentSpan, result) ==
    IF i > Len(months)
    THEN IF currentSpan > 0
         THEN Append(result, [date |-> currentHour, span |-> Num(currentSpan)])
         ELSE result
    ELSE IF sameHour(months[i], currentHour)
         THEN groupByHour(months, i + 1, currentHour, currentSpan + 1, result)
         ELSE groupByHour(months, i + 1, hourKey(months[i]), 1,
                          Append(result, [date |-> currentHour, span |-> Num(currentSpan)]))

\* months.forEach of the HOUR branch, from index i on
RECURSIVE groupByDay(_, _, _, _, _)
groupByDay(months, i, currentDay, currentSpan, result) ==
    IF i > Len(months)
    THEN IF currentSpan > 0
         THEN Append(result, [date |-> currentDay, span |-> Num(currentSpan)])
         ELSE result
    ELSE IF sameDay(months[i], currentDay)
         THEN groupByDay(months, i + 1, currentDay, currentSpan + 1, result)
         ELSE groupByDay(months, i + 1, dayKey(months[i]), 1,
                         Append(result, [date |-> currentDay, span |-> Num(currentSpan)]))

\* mutant: the last block is not clamped to the end of the timeline
RECURSIVE groupByMonth_unclamped(_, _, _, _, _)
groupByMonth_unclamped(iterDate, startDate, endDate, unitDuration, result) ==
    IF ~before(iterDate, endDate)
    THEN result
    ELSE LET m == monthOf(iterDate)
             currentMonthStart == [day |-> Calendar[m].first, ms |-> 0]
             nextMonthStart == [day |-> Calendar[m].first + Calendar[m].days, ms |-> 0]
             blockStart == IF before(iterDate, startDate) THEN startDate
                           ELSE IF before(currentMonthStart, iterDate) THEN iterDate
                           ELSE currentMonthStart
             blockEnd == nextMonthStart
             pushed == IF before(blockStart, blockEnd)
                       THEN Append(result, [date |-> blockStart,
                                            span |-> spanBetween(blockEnd, blockStart, unitDuration)])
                       ELSE result
         IN  groupByMonth_unclamped(nextMonthStart, startDate, endDate, unitDuration, pushed)

\* the while loop of the DAY/WEEK branch
RECURSIVE groupByMonth(_, _, _, _, _)
groupByMonth(iterDate, startDate, endDate, unitDuration, result) ==
    IF ~before(iterDate, endDate)
    THEN result
    ELSE LET m == monthOf(iterDate)
             currentMonthStart == [day |-> Calendar[m].first, ms |-> 0]
             nextMonthStart == [day |-> Calendar[m].first + Calendar[m].days, ms |-> 0]
             blockStart == IF before(iterDate, startDate) THEN startDate
                           ELSE IF before(currentMonthStart, iterDate) THEN iterDate
                           ELSE currentMonthStart
             blockEnd == IF before(endDate, nextMonthStart) THEN endDate ELSE nextMonthStart
             pushed == IF before(blockStart, blockEnd)
                       THEN Append(result, [date |-> blockStart,
                                            span |-> spanBetween(blockEnd, blockStart, unitDuration)])
                       ELSE result
         IN  groupByMonth(nextMonthStart, startDate, endDate, unitDuration, pushed)

getHigherLevelUnits(months, viewMode) ==
    IF viewMode \notin {"MINUTE", "HOUR", "DAY", "WEEK"} \/ Len(months) = 0
    THEN << >>
    ELSE IF viewMode = "MINUTE"
    THEN groupByHour(months, 1, hourKey(months[1]), 0, << >>)
    ELSE IF viewMode = "HOUR"
    THEN groupByDay(months, 1, dayKey(months[1]), 0, << >>)
    ELSE IF Len(months) < 2 /\ viewMode # "WEEK"
    THEN << >>
    ELSE LET startDate == months[1]
             lastUnit == months[Len(months)]
             unitDuration == IF viewMode = "WEEK" THEN 7 ELSE 1
             endDate == addDays(lastUnit, unitDuration)
         IN  groupByMonth(startDate, startDate, endDate, unitDuration, << >>)

(***************************************************************************)
(* TodayMarker                                                             *)
(***************************************************************************)
\* the [day, ms] form of an instant
calendarDate(t) == [day |-> t \div MsPerDay, ms |-> t % MsPerDay]

getMinutes(t) == (t % MsPerHour) \div MsPerMinute

getSeconds(t) == (t % MsPerMinute) \div MsPerSecond

\* day of the week, 0 = Sunday; day 0 (2024-01-16) is a Tuesday
getDay(t) == (2 + (t \div MsPerDay)) % 7

\* new Date(year, month + 1, 0).getDate()
daysInMonth(t) == Calendar[monthOf(calendarDate(t))].days

\* durationInMs of the switch in the precise branch
markerDurationInMs(viewMode) ==
    CASE viewMode = "MINUTE" -> 60 * 1000
      [] viewMode = "HOUR" -> 60 * 60 * 1000
      [] viewMode = "DAY" -> 24 * 60 * 60 * 1000
      [] viewMode = "WEEK" -> 7 * 24 * 60 * 60 * 1000
      [] OTHER -> 0

\* the precise branch: (diffInMs / durationInMs) * unitWidth
preciseMarkerPosition(props) ==
    LET diffInMs == props.currentDate - props.startDate
        durationInMs == markerDurationInMs(props.viewMode)
    IN  RatMul(Rat(diffInMs, durationInMs), Num(props.unitWidth))

\* the switch on viewMode used without a startDate:
\* currentMonthIndex * unitWidth + unitWidth * (fraction of the column)
fallbackMarkerPosition(props) ==
    LET today == props.currentDate
        currentDay == IF props.dayOfMonth # 0 THEN props.dayOfMonth
                      ELSE getDate(calendarDate(today))
        unitWidth == Num(props.unitWidth)
        fraction ==
            CASE props.viewMode = "MINUTE" ->
                    RatDiv(RatAdd(Num(getMinutes(today)), Rat(getSeconds(today), 60)), Num(60))
              [] props.viewMode = "HOUR" -> Rat(getMinutes(today), 60)
              [] props.viewMode = "DAY" -> Rat(1, 2)
              [] props.viewMode = "WEEK" -> Rat((getDay(today) + 7) % 7, 6)
              [] props.viewMode = "MONTH" -> Rat(currentDay - 1, daysInMonth(today))
              [] props.viewMode = "QUARTER" -> Rat(getMonth(calendarDate(today)) % 3, 3)
              [] props.viewMode = "YEAR" -> Rat(getMonth(calendarDate(today)), 12)
    IN  RatAdd(Num(props.currentMonthIndex * props.unitWidth), RatMul(unitWidth, fraction))

\* props.hasStartDate = FALSE: the startDate prop is undefined
calculateMarkerPosition(props) ==
    IF /\ props.hasStartDate
       /\ props.viewMode \in {"WEEK", "DAY", "HOUR", "MINUTE"}
       /\ markerDurationInMs(props.viewMode) > 0
    THEN preciseMarkerPosition(props)
    ELSE fallbackMarkerPosition(props)

\* the component renders nothing (null) for a negative currentMonthIndex,
\* otherwise the marker at left: markerPosition px
TodayMarker(props) ==
    IF props.currentMonthIndex < 0
    THEN [rendered |-> FALSE, left |-> NaN]
    ELSE [rendered |-> TRUE, left |-> calculateMarkerPosition(props)]

(***************************************************************************)
(* Inputs                                                                  *)
(***************************************************************************)
MaxUnits == 2
MaxSteps == 3
MaxInstant == 3
MaxHeaderUnits == 4

\* the calendar step bars snap to: a minute, an hour, or a day
snapUnitMs(viewMode) ==
    CASE viewMode = "MINUTE" -> MsPerMinute
      [] viewMode = "HOUR" -> MsPerHour
      [] OTHER -> MsPerDay

\* the length given to one column of a window: its real length in the
\* fixed-duration modes; MONTH, QUARTER and YEAR columns are cut to two days
\* (both conversions only use the literal span of the window there)
columnMs(viewMode) ==
    IF viewMode \in FixedModes THEN unitDurationMs(viewMode) ELSE 2 * MsPerDay

UnitWidths(viewMode) == IF viewMode = "WEEK" THEN {70, 105, 140} ELSE {10, 20, 150}

WindowStarts(viewMode) ==
    CASE viewMode = "MINUTE" -> {At(0, 9, 0, 0, 0), At(0, 9, 0, 15, 0)}
      [] viewMode = "HOUR" -> {At(0, 9, 0, 0, 0), At(0, 9, 15, 0, 0)}
      [] OTHER -> {At(-3, 0, 0, 0, 0), At(-3, 6, 0, 0, 0)}

EndSlack(viewMode) == IF viewMode \in FixedModes THEN {0, 1} ELSE {0}

\* a window covers totalUnits columns from its start; it ends at the start of
\* the next column or, in the fixed-duration modes, one millisecond earlier
WindowsOf(m) ==
    { [startDate |-> s, endDate |-> s + n * columnMs(m) - e, totalUnits |-> n,
       unitWidth |-> u, viewMode |-> m, isDate |-> TRUE] :
        s \in WindowStarts(m), n \in 1..MaxUnits, u \in UnitWidths(m), e \in EndSlack(m) }

\* DAY, unitWidth 150, 30 columns, window 2024-01-01 .. 2024-01-31
JanuaryWindow ==
    [startDate |-> At(-15, 0, 0, 0, 0), endDate |-> At(15, 0, 0, 0, 0), totalUnits |-> 30,
     unitWidth |-> 150, viewMode |-> "DAY", isDate |-> TRUE]

DateWindows == UNION { WindowsOf(m) : m \in ViewMode }

\* windows whose startDate/endDate are timestamps rather than Date objects
NonDateWindows ==
    { [w EXCEPT !.isDate = FALSE] :
        w \in { v \in DateWindows : v.endDate = v.startDate + v.totalUnits * columnMs(v.viewMode) } }

Windows == DateWindows \cup NonDateWindows \cup {JanuaryWindow}

\* the grid of the window, in milliseconds, fits the integers of the model
\* (the 30-day grid of JanuaryWindow does not: it is only converted from pixels)
fitsGrid(w) == w.totalUnits <= MaxUnits + 1

\* snapQuantumPx: pixels of one snap step
snapQuantumPx(w) ==
    IF w.viewMode = "WEEK" THEN Rat(w.unitWidth, 7) ELSE Num(w.unitWidth)

\* h half snap steps, in pixels
halfSteps(w, h) == RatMul(Rat(h, 2), snapQuantumPx(w))

\* snap steps in the grid
gridSteps(w) == IF w.viewMode = "WEEK" THEN 7 * w.totalUnits ELSE w.totalUnits

\* NaN, left of the grid, on and between steps, right of the grid
LeftInputs(w) ==
    {NaN} \cup { halfSteps(w, h) : h \in {-3, 0, 1, 2, 4} }
          \cup { halfSteps(w, 2 * gridSteps(w) + 2) : x \in { y \in {w} : fitsGrid(y) } }

WidthInputs(w) == {NaN} \cup { halfSteps(w, h) : h \in {0, 1, 2, 6} }

\* task dates relative to the window: before it, on its start, inside a
\* step, on a later step, after its end
TaskStarts(w) ==
    { w.startDate + k * (snapUnitMs(w.viewMode) \div 5) : k \in {-5, 0, 3, 5} }
        \cup { w.endDate + snapUnitMs(w.viewMode) }

TaskDurations(w) ==
    LET S == snapUnitMs(w.viewMode)
    IN  { S \div 5, S - 1, S, 2 * S - 1 }

Tasks(w) ==
    { [startDate |-> s, endDate |-> s + d, isDate |-> TRUE] :
        s \in TaskStarts(w), d \in TaskDurations(w) }
        \cup { [startDate |-> s, endDate |-> w.endDate + snapUnitMs(w.viewMode), isDate |-> TRUE] :
                s \in { x \in TaskStarts(w) : x <= w.endDate } }
        \cup { [startDate |-> w.startDate, endDate |-> w.startDate + snapUnitMs(w.viewMode),
                isDate |-> FALSE] }

\* the task the bar belongs to before any conversion
windowTask(w) == [startDate |-> w.startDate, endDate |-> w.endDate, isDate |-> TRUE]

noBar == [left |-> Num(0), width |-> Num(0)]

\* the element handed to getLiveDatesFromElement
noElement == [isNull |-> TRUE, styled |-> FALSE]

Elements == [isNull : BOOLEAN, styled : BOOLEAN] \ {[isNull |-> TRUE, styled |-> TRUE]}

Intervals == { [start |-> a, end |-> b] : a \in 0..MaxInstant, b \in 0..MaxInstant }

HeaderStarts(viewMode) ==
    CASE viewMode = "MINUTE" ->
            { [day |-> 15, ms |-> At(0, 23, 58, 0, 0)], [day |-> 0, ms |-> At(0, 9, 0, 0, 0)],
              [day |-> 0, ms |-> At(0, 9, 58, 30, 0)] }
      [] viewMode = "HOUR" ->
            { [day |-> 15, ms |-> At(0, 22, 0, 0, 0)], [day |-> 0, ms |-> 0],
              [day |-> 0, ms |-> At(0, 22, 30, 0, 0)] }
      [] viewMode = "DAY" ->
            { [day |-> 13, ms |-> 0], [day |-> 15, ms |-> 0], [day |-> 16, ms |-> 0],
              [day |-> 15, ms |-> At(0, 12, 0, 0, 0)], [day |-> 43, ms |-> 0] }
      [] viewMode = "WEEK" ->
            { [day |-> -15, ms |-> 0], [day |-> -1, ms |-> 0], [day |-> 13, ms |-> 0] }
      [] OTHER -> { [day |-> -15, ms |-> 0] }

\* the column i steps after start
columnAt(start, i, viewMode) ==
    IF viewMode = "MINUTE" \/ viewMode = "HOUR"
    THEN LET t == start.ms + i * unitDurationMs(viewMode)
         IN  [day |-> start.day + (t \div MsPerDay), ms |-> t % MsPerDay]
    ELSE IF viewMode = "WEEK" THEN addDays(start, 7 * i)
    ELSE IF viewMode = "DAY" THEN addDays(start, i)
    ELSE addDays(start, (columnMs(viewMode) \div MsPerDay) * i)

\* instants of MINUTE and HOUR columns given in any order: two in one hour
\* (day), one in the next, one in the same hour (day of the month) of another
\* day (month)
HeaderInstants(viewMode) ==
    CASE viewMode = "MINUTE" ->
            { [day |-> 0, ms |-> At(0, 9, 58, 30, 0)], [day |-> 0, ms |-> At(0, 9, 59, 30, 0)],
              [day |-> 0, ms |-> At(0, 10, 0, 30, 0)], [day |-> 1, ms |-> At(0, 9, 58, 30, 0)] }
      [] viewMode = "HOUR" ->
            { [day |-> 0, ms |-> At(0, 22, 30, 0, 0)], [day |-> 0, ms |-> At(0, 23, 30, 0, 0)],
              [day |-> 1, ms |-> At(0, 0, 30, 0, 0)], [day |-> 31, ms |-> At(0, 22, 30, 0, 0)] }
      [] OTHER -> {}

\* the primitive columns handed to the Timeline (its months prop): columns in
\* a row from a start and, in MINUTE and HOUR mode, instants in any order
Columns(viewMode) ==
    { [i \in 1..n |-> columnAt(s, i - 1, viewMode)] :
        s \in HeaderStarts(viewMode), n \in 0..MaxHeaderUnits }
    \cup UNION { [1..n -> HeaderInstants(viewMode)] : n \in 0..MaxHeaderUnits }

\* the instants a marker is placed at: the starts of the window's tasks
MarkerInstants(w) == { t.startDate : t \in { x \in Tasks(w) : x.isDate } }

\* currentMonthIndex, dayOfMonth (0: not given) and whether startDate is given
MarkerProps ==
    [currentMonthIndex : {-1, 0, 2}, dayOfMonth : {0, 5}, hasStartDate : BOOLEAN]

noMarkerProps == [currentMonthIndex |-> 0, dayOfMonth |-> 0, hasStartDate |-> FALSE]

noMarker == [rendered |-> FALSE, left |-> NaN]

(***************************************************************************)
(* State                                                                   *)
(***************************************************************************)
VARIABLES
    call,     \* the operation the caller starts with
    last,     \* the operation performed last ("none" before the first)
    step,     \* conversions performed so far
    win,      \* the timeline window
    task,     \* the task's dates: input of calculateTaskPixelPosition, output of calculateDatesFromPosition
    bar,      \* the bar's pixels: input of calculateDatesFromPosition, output of calculateTaskPixelPosition
    el,       \* the element of getLiveDatesFromElement
    hist,     \* the initial input followed by every conversion result
    ivA,      \* datesOverlap: first interval
    ivB,      \* datesOverlap: second interval
    ovl,      \* datesOverlap: results for (A,B), (B,A), (A,A), (B,B)
    months,   \* getHigherLevelUnits: the primitive columns
    hmode,    \* getHigherLevelUnits: viewMode of the Timeline
    groups,   \* getHigherLevelUnits: result
    mprops,   \* TodayMarker: currentMonthIndex, dayOfMonth, startDate given or not
    marker    \* TodayMarker: what is rendered

vars == <<call, last, step, win, task, bar, el, hist, ivA, ivB, ovl, months, hmode, groups,
          mprops, marker>>

mapperVars == <<win, task, bar, el, hist, step>>
overlapVars == <<ivA, ivB, ovl>>
headerVars == <<months, hmode, groups>>
markerVars == <<mprops, marker>>

idleWindow == CHOOSE w \in WindowsOf("MONTH") : TRUE

noOverlap == [ab |-> FALSE, ba |-> FALSE, aa |-> FALSE, bb |-> FALSE]

MapperIdle ==
    /\ win = idleWindow /\ task = windowTask(idleWindow) /\ bar = noBar
    /\ el = noElement /\ hist = << >> /\ step = 0

OverlapIdle == ivA = [start |-> 0, end |-> 0] /\ ivB = [start |-> 0, end |-> 0] /\ ovl = noOverlap

HeaderIdle == months = << >> /\ hmode = "MONTH" /\ groups = << >>

MarkerIdle == mprops = noMarkerProps /\ marker = noMarker

\* a bar was dragged and is released: its pixels are converted to dates
InitRelease ==
    /\ call = "release"
    /\ win \in Windows
    /\ bar \in { [left |-> l, width |-> x] : l \in LeftInputs(win), x \in WidthInputs(win) }
    /\ task = windowTask(win) /\ el = noElement /\ hist = <<bar>> /\ step = 0
    /\ OverlapIdle /\ HeaderIdle /\ MarkerIdle

\* a bar is being dragged: the dates are read off its element
InitLive ==
    /\ call = "live"
    /\ win \in Windows
    /\ el \in Elements
    /\ bar \in IF el.styled
               THEN { [left |-> l, width |-> x] : l \in LeftInputs(win), x \in WidthInputs(win) }
               ELSE {noBar}
    /\ task = windowTask(win) /\ hist = <<bar>> /\ step = 0
    /\ OverlapIdle /\ HeaderIdle /\ MarkerIdle

\* a task is laid out: its dates are converted to pixels
InitLayout ==
    /\ call = "layout"
    /\ win \in { w \in Windows : fitsGrid(w) }
    /\ task \in Tasks(win)
    /\ bar = noBar /\ el = noElement /\ hist = <<task>> /\ step = 0
    /\ OverlapIdle /\ HeaderIdle /\ MarkerIdle

InitOverlap ==
    /\ call = "overlap"
    /\ ivA \in { i \in Intervals : i.start <= i.end }
    /\ ivB \in { i \in Intervals : i.start <= i.end }
    /\ ovl = noOverlap
    /\ MapperIdle /\ HeaderIdle /\ MarkerIdle

InitHeader ==
    /\ call = "header"
    /\ hmode \in ViewMode
    /\ months \in Columns(hmode)
    /\ groups = << >>
    /\ MapperIdle /\ OverlapIdle /\ MarkerIdle

\* the marker is placed in a window, at the start of one of its tasks
InitMarker ==
    /\ call = "marker"
    /\ win \in { w \in DateWindows : fitsGrid(w) }
    /\ task \in { [startDate |-> t, endDate |-> t + snapUnitMs(win.viewMode), isDate |-> TRUE] :
                    t \in MarkerInstants(win) }
    /\ mprops \in MarkerProps
    /\ marker = noMarker
    /\ bar = noBar /\ el = noElement /\ hist = <<task>> /\ step = 0
    /\ OverlapIdle /\ HeaderIdle

Init ==
    /\ last = "none"
    /\ (InitRelease \/ InitLive \/ InitLayout \/ InitOverlap \/ InitHeader \/ InitMarker)

(***************************************************************************)
(* Operations                                                              *)
(***************************************************************************)
\* pixels -> dates; the bar's task takes the new dates (createUpdatedTask)
CalculateDatesFromPosition ==
    /\ \/ call = "release" /\ last = "none"
       \/ last = "calculateTaskPixelPosition"
    /\ step < MaxSteps
    /\ LET r == calculateDatesFromPosition(bar.left, bar.width, win)
           t == [createUpdatedTask(task, r.newStartDate, r.newEndDate) EXCEPT !.isDate = TRUE]
       IN  /\ task' = t
           /\ hist' = Append(hist, t)
    /\ last' = "calculateDatesFromPosition"
    /\ step' = step + 1
    /\ UNCHANGED <<call, win, bar, el, overlapVars, headerVars, markerVars>>

\* dates -> pixels
CalculateTaskPixelPosition ==
    /\ \/ call = "layout" /\ last = "none"
       \/ last = "calculateDatesFromPosition"
    /\ step < MaxSteps
    /\ fitsGrid(win)
    /\ LET p == calculateTaskPixelPosition(task, win)
           b == [left |-> p.leftPx, width |-> p.widthPx]
       IN  /\ bar' = b
           /\ hist' = Append(hist, b)
    /\ last' = "calculateTaskPixelPosition"
    /\ step' = step + 1
    /\ UNCHANGED <<call, win, task, el, overlapVars, headerVars, markerVars>>

\* dates shown while the bar is dragged
GetLiveDatesFromElement ==
    /\ call = "live" /\ last = "none"
    /\ LET r == getLiveDatesFromElement([isNull |-> el.isNull, styled |-> el.styled,
                                         left |-> bar.left, width |-> bar.width], win)
           t == [startDate |-> r.startDate, endDate |-> r.endDate, isDate |-> TRUE]
       IN  /\ task' = t
           /\ hist' = Append(hist, t)
    /\ last' = "getLiveDatesFromElement"
    /\ step' = step + 1
    /\ UNCHANGED <<call, win, bar, el, overlapVars, headerVars, markerVars>>

DatesOverlap ==
    /\ call = "overlap" /\ last = "none"
    /\ ovl' = [ab |-> datesOverlap(ivA.start, ivA.end, ivB.start, ivB.end),
               ba |-> datesOverlap(ivB.start, ivB.end, ivA.start, ivA.end),
               aa |-> datesOverlap(ivA.start, ivA.end, ivA.start, ivA.end),
               bb |-> datesOverlap(ivB.start, ivB.end, ivB.start, ivB.end)]
    /\ last' = "datesOverlap"
    /\ UNCHANGED <<call, ivA, ivB, mapperVars, headerVars, markerVars>>

GetHigherLevelUnits ==
    /\ call = "header" /\ last = "none"
    /\ groups' = getHigherLevelUnits(months, hmode)
    /\ last' = "getHigherLevelUnits"
    /\ UNCHANGED <<call, months, hmode, mapperVars, overlapVars, markerVars>>

\* the marker of the instant task.startDate in the window
RenderTodayMarker ==
    /\ call = "marker" /\ last = "none"
    /\ marker' = TodayMarker([currentMonthIndex |-> mprops.currentMonthIndex,
                              dayOfMonth |-> mprops.dayOfMonth,
                              viewMode |-> win.viewMode,
                              unitWidth |-> win.unitWidth,
                              hasStartDate |-> mprops.hasStartDate,
                              startDate |-> win.startDate,
                              currentDate |-> task.startDate])
    /\ last' = "TodayMarker"
    /\ UNCHANGED <<call, mprops, mapperVars, overlapVars, headerVars>>

Next ==
    \/ CalculateDatesFromPosition
    \/ CalculateTaskPixelPosition
    \/ GetLiveDatesFromElement
    \/ DatesOverlap
    \/ GetHigherLevelUnits
    \/ RenderTodayMarker

Spec == Init /\ [][Next]_vars

(***************************************************************************)
(* Properties                                                              *)
(***************************************************************************)
DateLE(a, b) == isValid(a) /\ isValid(b) /\ a <= b

validTask(t) == t.isDate /\ isValid(t.startDate) /\ isValid(t.endDate)

totalPixelWidth(w) == Num(w.totalUnits * w.unitWidth)

isInteger(x) == ~isNaN(x) /\ x.d = 1

ranDates == last = "calculateDatesFromPosition"

ranPixels == last = "calculateTaskPixelPosition"

\* C1: every interval calculateDatesFromPosition returns for a window with
\* startDate < endDate lies in the window and is ordered:
\* window.startDate <= newStartDate <= newEndDate <= window.endDate,
\* whatever the (numeric) pixel input and the view mode.
C1_DatesInsideWindow ==
    (ranDates /\ win.isDate /\ win.startDate < win.endDate
        /\ ~isNaN(bar.left) /\ ~isNaN(bar.width)) =>
        /\ DateLE(win.startDate, task.startDate)
        /\ DateLE(task.startDate, task.endDate)
        /\ DateLE(task.endDate, win.endDate)

\* C2 as stated: the width calculateTaskPixelPosition returns is at least
\* minWidthByViewMode[viewMode], also at the right edge of the timeline.
C2_WidthAtLeastMinimum ==
    (ranPixels /\ win.isDate /\ validTask(task)) =>
        RatLE(Num(minWidthByViewMode(win.viewMode)), bar.width)

\* C2 amended: the width is at least the smaller of minWidthByViewMode[viewMode]
\* and the room left of the timeline, totalUnits * unitWidth - leftPx (the cap
\* is applied after the minimum and wins).
C2_WidthAtLeastMinimumOrRoom ==
    (ranPixels /\ win.isDate /\ validTask(task)) =>
        RatLE(MathMin(Num(minWidthByViewMode(win.viewMode)),
                      RatSub(totalPixelWidth(win), bar.left)),
              bar.width)

\* a task in the last column whose bar is cut below the minimum width
C2_Witness ==
    /\ ranPixels /\ win.isDate /\ validTask(task)
    /\ win.startDate <= task.startDate /\ task.endDate <= win.endDate
    /\ RatLT(Num(0), bar.width)
    /\ RatLT(bar.width, Num(minWidthByViewMode(win.viewMode)))
    /\ bar.width = RatSub(totalPixelWidth(win), bar.left)

\* floorToUnit / ceilToUnit: start and end of the enclosing snap step
floorToUnit(t, viewMode) ==
    CASE viewMode = "MINUTE" -> startOfMinute(t)
      [] viewMode = "HOUR" -> startOfHour(t)
      [] OTHER -> startOfDay(t)

ceilToUnit(t, viewMode) ==
    CASE viewMode = "MINUTE" -> endOfMinute(t)
      [] viewMode = "HOUR" -> endOfHour(t)
      [] OTHER -> endOfDay(t)

\* a layout of the interval hist[1] followed by the conversion back
roundTripped ==
    call = "layout" /\ step = 2 /\ ranDates /\ win.isDate /\ hist[1].isDate

insideWindow(d, w) ==
    w.startDate <= d.startDate /\ d.startDate <= d.endDate /\ d.endDate <= w.endDate

\* C3: round trip in the fixed-duration modes: for an interval d inside the
\* window, calculateDatesFromPosition(calculateTaskPixelPosition(d)) starts
\* less than one snap step (minute, hour, day, day) from d's start floored to
\* the step and ends less than one snap step from d's end ceiled to the step.
C3_RoundTripWithinOneStep ==
    (roundTripped /\ win.viewMode \in FixedModes /\ insideWindow(hist[1], win)) =>
        /\ isValid(task.startDate) /\ isValid(task.endDate)
        /\ Abs(task.startDate - floorToUnit(hist[1].startDate, win.viewMode))
                < snapUnitMs(win.viewMode)
        /\ Abs(task.endDate - ceilToUnit(hist[1].endDate, win.viewMode))
                < snapUnitMs(win.viewMode)

\* C4: datesOverlap is symmetric and reflexive, and intervals that share
\* only an endpoint overlap (the intersection is inclusive).
C4_OverlapSymmetricReflexive ==
    last = "datesOverlap" =>
        /\ ovl.ab = ovl.ba
        /\ ovl.aa /\ ovl.bb
        /\ (ivA.end = ivB.start \/ ivB.end = ivA.start) => ovl.ab

\* two proper intervals that meet in a single instant were compared
C4_Witness ==
    /\ last = "datesOverlap"
    /\ ivA.start < ivA.end /\ ivA.end = ivB.start /\ ivB.start < ivB.end
    /\ ovl.ab /\ ovl.ba

\* sum of the spans of groups i..Len(gs)
RECURSIVE sumSpans(_, _)
sumSpans(gs, i) == IF i > Len(gs) THEN Num(0) ELSE RatAdd(gs[i].span, sumSpans(gs, i + 1))

unitDays(viewMode) == IF viewMode = "WEEK" THEN 7 ELSE 1

\* the end of the header range: the start of the last column plus one column
rangeEnd(cols, viewMode) == addDays(cols[Len(cols)], unitDays(viewMode))

\* days elapsed from the start of the first column to the end of the range
elapsedDays(cols, viewMode) == spanBetween(rangeEnd(cols, viewMode), cols[1], 1)

parentKey(date, viewMode) == IF viewMode = "MINUTE" THEN hourKey(date) ELSE dayKey(date)

\* consecutive groups neither leave a gap nor overlap.  DAY/WEEK: the groups
\* start at the first column, each ends (date + span columns) where the next
\* begins, and the last ends at the end of the range.  MINUTE/HOUR: laid side
\* by side, every group lies exactly over columns of its own hour or day.
contiguous(gs, cols, viewMode) ==
    IF viewMode \in {"DAY", "WEEK"}
    THEN /\ \A i \in 1..(Len(gs) - 1) :
                spanBetween(gs[i + 1].date, gs[i].date, unitDays(viewMode)) = gs[i].span
         /\ gs # << >> =>
                /\ gs[1].date = cols[1]
                /\ spanBetween(rangeEnd(cols, viewMode), gs[Len(gs)].date, unitDays(viewMode))
                        = gs[Len(gs)].span
    ELSE \A i \in 1..Len(gs) :
            LET offset == RatSub(sumSpans(gs, 1), sumSpans(gs, i))
            IN  /\ isInteger(gs[i].span) /\ isInteger(offset)
                /\ \A k \in (offset.n + 1)..(offset.n + gs[i].span.n) :
                        k <= Len(cols) /\ parentKey(cols[k], viewMode) = gs[i].date

ranHeader == last = "getHigherLevelUnits" /\ hmode \in FixedModes /\ Len(months) > 0

\* C5 as stated: on a non-empty column sequence the spans sum to the number
\* of columns in MINUTE/HOUR mode and to the elapsed days of the range in
\* DAY/WEEK mode, and consecutive groups neither gap nor overlap.
C5_HeaderCoverage ==
    ranHeader =>
        /\ hmode \in {"MINUTE", "HOUR"} => sumSpans(groups, 1) = Num(Len(months))
        /\ hmode \in {"DAY", "WEEK"} => sumSpans(groups, 1) = elapsedDays(months, hmode)
        /\ contiguous(groups, months, hmode)

\* C5 amended: the spans sum to the number of columns in MINUTE/HOUR mode; in
\* WEEK mode, and in DAY mode with two or more columns, they sum to the range
\* in columns: elapsed days in DAY mode, elapsed days / 7 in WEEK mode; one
\* DAY column alone gives no group; consecutive groups neither gap nor overlap.
C5_HeaderCoverageInColumns ==
    ranHeader =>
        /\ hmode \in {"MINUTE", "HOUR"} => sumSpans(groups, 1) = Num(Len(months))
        /\ (hmode = "WEEK" \/ (hmode = "DAY" /\ Len(months) >= 2)) =>
                RatMul(sumSpans(groups, 1), Num(unitDays(hmode))) = elapsedDays(months, hmode)
        /\ (hmode = "DAY" /\ Len(months) < 2) => groups = << >>
        /\ contiguous(groups, months, hmode)

\* weeks grouped under two or more months, one of them covering part of a week
C5_Witness ==
    /\ ranHeader /\ hmode = "WEEK"
    /\ Len(groups) >= 2
    /\ \E i \in 1..Len(groups) : ~isInteger(groups[i].span)

\* u is the integer nearest to x / unitWidth (the upper one on a tie):
\* (2u - 1) * unitWidth <= 2x < (2u + 1) * unitWidth
nearestCount(x, u, unitWidth) ==
    /\ ~isNaN(x)
    /\ (2 * u - 1) * unitWidth * x.d <= 2 * x.n
    /\ 2 * x.n < (2 * u + 1) * unitWidth * x.d

CandidateCounts == -4..70

isMultipleOf(x, q) == isInteger(RatDiv(x, q))

\* a task of exactly one day, starting one day after the start of a WEEK
\* window of unitWidth 140 (20 pixels per day) that begins at midnight
oneDayTaskInWeekView ==
    /\ win.viewMode = "WEEK" /\ win.unitWidth = 140
    /\ startOfDay(win.startDate) = win.startDate
    /\ task.startDate = win.startDate + MsPerDay
    /\ task.endDate = task.startDate + MsPerDay - 1

snappedModes == ranPixels /\ win.isDate /\ validTask(task) /\ win.viewMode \in {"DAY", "WEEK"}

substitutedLeft(left) == IF isNaN(left) \/ RatLT(left, Num(0)) THEN Num(0) ELSE left

substitutedWidth(width) == IF isNaN(width) \/ RatLT(width, Num(20)) THEN Num(20) ELSE width

\* C8: malformed numeric input to calculateDatesFromPosition is substituted,
\* not propagated: in every view mode the call returns the valid dates it
\* returns for the same window with a NaN or negative left replaced by 0 and
\* a NaN or below-20 width replaced by 20.
C8_MalformedInputSubstituted ==
    (ranDates /\ win.isDate) =>
        LET r == calculateDatesFromPosition(substitutedLeft(bar.left),
                                            substitutedWidth(bar.width), win)
        IN  /\ isValid(task.startDate) /\ isValid(task.endDate)
            /\ task.startDate = r.newStartDate
            /\ task.endDate = r.newEndDate

windowBounds(t, w) == t.startDate = w.startDate /\ t.endDate = w.endDate

\* C9 as stated: for a task whose dates are not Date values
\* calculateTaskPixelPosition returns the window's bounds; a failure inside
\* calculateDatesFromPosition or getLiveDatesFromElement returns the window's
\* [startDate, endDate].
C9_FallbackIsWindowBounds ==
    /\ (ranPixels /\ ~task.isDate) =>
            \/ bar = [left |-> Num(0), width |-> totalPixelWidth(win)]
            \/ bar = [left |-> Num(win.startDate), width |-> Num(win.endDate)]
    /\ (ranDates /\ ~win.isDate) => windowBounds(task, win)
    /\ (last = "getLiveDatesFromElement" /\ (el.isNull \/ ~win.isDate)) => windowBounds(task, win)

\* C9 amended: for a task whose dates are not Date values
\* calculateTaskPixelPosition returns the fixed default position leftPx = 0,
\* widthPx = 20; a failure inside calculateDatesFromPosition, or a missing
\* element or a failure in getLiveDatesFromElement, returns the window's
\* [startDate, endDate].
C9_FallbackValues ==
    /\ (ranPixels /\ ~task.isDate) => bar = [left |-> Num(0), width |-> Num(20)]
    /\ (ranDates /\ ~win.isDate) => windowBounds(task, win)
    /\ (last = "getLiveDatesFromElement" /\ (el.isNull \/ ~win.isDate)) => windowBounds(task, win)

\* a task without Date values was laid out in a timeline wider than 20 pixels
C9_Witness ==
    /\ ranPixels /\ ~task.isDate /\ win.isDate
    /\ bar = [left |-> Num(0), width |-> Num(20)]
    /\ RatLT(Num(20), totalPixelWidth(win))

\* C10: every position calculateTaskPixelPosition returns, also for tasks that
\* start before the window, end after it or lie outside it, has leftPx >= 0,
\* widthPx >= 0 and leftPx + widthPx <= totalUnits * unitWidth.
C10_PixelIntervalInTimeline ==
    (ranPixels /\ win.isDate /\ validTask(task)) =>
        /\ RatLE(Num(0), bar.left)
        /\ RatLE(Num(0), bar.width)
        /\ RatLE(RatAdd(bar.left, bar.width), totalPixelWidth(win))

(***************************************************************************)
(* TodayMarker and task placement                                          *)
(***************************************************************************)
\* the marker was rendered through the precise branch
ranPreciseMarker ==
    /\ last = "TodayMarker"
    /\ mprops.hasStartDate
    /\ win.viewMode \in FixedModes
    /\ mprops.currentMonthIndex >= 0

\* the instant lies in the window, where the clamp of the task's dates to the
\* window does not act
markerInWindow == win.startDate <= task.startDate /\ task.startDate <= win.endDate

\* (t - startDate) / unitDurationMs(viewMode) * unitWidth
elapsedFraction(t, w) ==
    RatMul(Rat(t - w.startDate, unitDurationMs(w.viewMode)), Num(w.unitWidth))

\* C11: with a window startDate, a fixed-duration viewMode and a reference
\* index >= 0, the marker offset of the instant t is
\* (t - startDate) / unitDurationMs(viewMode) * unitWidth, and it equals the
\* unsnapped left offset calculateTaskPixelPosition computes in the same
\* window for a task starting at t, whatever the window's startDate (stated
\* for instants inside the window).
C11_MarkerMatchesTaskPlacement ==
    ranPreciseMarker /\ markerInWindow =>
        /\ marker.rendered
        /\ marker.left = elapsedFraction(task.startDate, win)
        /\ marker.left = rawPixelPosition(task, win).leftPx

(***************************************************************************)
(* Header groups as a run-length encoding                                  *)
(***************************************************************************)
\* the parent key of every column, in input order
parentKeys(cols, viewMode) == [i \in 1..Len(cols) |-> parentKey(cols[i], viewMode)]

\* the positions where a maximal run of equal keys begins
runStarts(keys) == { i \in 1..Len(keys) : i = 1 \/ keys[i] # keys[i - 1] }

\* the k-th of them
nthRunStart(keys, k) ==
    CHOOSE b \in runStarts(keys) : Cardinality({ x \in runStarts(keys) : x < b }) = k - 1

\* the last position of the run beginning at b
runEnd(keys, b) ==
    CHOOSE e \in b..Len(keys) :
        /\ \A j \in b..e : keys[j] = keys[b]
        /\ e = Len(keys) \/ keys[e + 1] # keys[b]

runLengthEncoding(keys) ==
    [k \in 1..Cardinality(runStarts(keys)) |->
        LET b == nthRunStart(keys, k)
        IN  [date |-> keys[b], span |-> Num(runEnd(keys, b) - b + 1)]]

ranHourDayHeader == last = "getHigherLevelUnits" /\ hmode \in {"MINUTE", "HOUR"}

\* C12: in MINUTE and HOUR mode getHigherLevelUnits returns the run-length
\* encoding of the columns' parent keys (hour start, day start): one group
\* per maximal run of consecutive columns with the same key, in input order,
\* date = the key, span = the length of the run; every span is >= 1, adjacent
\* groups have different keys, and the last run is emitted.
C12_HeaderRunLengthEncoding ==
    ranHourDayHeader =>
        /\ groups = runLengthEncoding(parentKeys(months, hmode))
        /\ \A i \in 1..Len(groups) : isInteger(groups[i].span) /\ groups[i].span.n >= 1
        /\ \A i \in 1..(Len(groups) - 1) : groups[i].date # groups[i + 1].date
        /\ months # << >> =>
                /\ groups # << >>
                /\ groups[Len(groups)].date = parentKey(months[Len(months)], hmode)

\* minutes of one hour, of the next, then of the first hour again: three
\* groups, the first of two columns, the last one open at the end of the walk
C12_Witness ==
    /\ ranHourDayHeader /\ hmode = "MINUTE"
    /\ Len(months) = 4 /\ Len(groups) = 3
    /\ groups[1].span = Num(2)
    /\ groups[3].date = groups[1].date

(***************************************************************************)
(* Repeated conversion                                                     *)
(***************************************************************************)
\* a bar was released, laid out again and released again without being
\* moved: hist = << p, d, calculateTaskPixelPosition(d), the dates read back >>
releasedTwice ==
    /\ call = "release" /\ step = 3 /\ ranDates
    /\ win.isDate /\ win.viewMode \in {"DAY", "WEEK"}

\* p is a bar with numeric left and width > 0 lying inside the grid
barInsideGrid(p, w) ==
    /\ ~isNaN(p.left) /\ ~isNaN(p.width)
    /\ RatLE(Num(0), p.left) /\ RatLT(Num(0), p.width)
    /\ RatLE(RatAdd(p.left, p.width), totalPixelWidth(w))

\* C13: in DAY and WEEK mode, with d = calculateDatesFromPosition(p, window),
\* calculateDatesFromPosition(calculateTaskPixelPosition(d, window), window) = d:
\* a bar released without being moved keeps its dates (stated for bars inside
\* the grid of a window that starts at midnight).
C13_NoDriftUnderRepetition ==
    (/\ releasedTwice
     /\ barInsideGrid(hist[1], win)
     /\ win.startDate = startOfDay(win.startDate)) =>
        hist[4] = hist[2]

====
